---------------------------- MODULE Spec2Model ----------------------------
(***************************************************************************)
(* crossref-snapshot-mount: the dedup upload orchestrator                  *)
(* (scripts/crossref_cleanup.py), the batch load scheduler                 *)
(* (scripts/loadtobq.py) and the retry driver (scripts/loadtobq_retry.py). *)
(*                                                                         *)
(* SpecOrch : runs of parallel_process_and_upload over a fixed source tree *)
(* SpecLoad : runs of loadtobq.main and loadtobq_retry.main                *)
(* SpecFile : process_single_file, line by line                            *)
(***************************************************************************)
EXTENDS Integers, Sequences, FiniteSets, TLC

VARIABLES
    \* ---- crossref_cleanup.py ----
    kind,                \* the source tree: path -> what the file holds
    store,               \* object store: the keys under gcs_processed_folder
    phase,               \* "idle" | "running" | "done" | "killed" | "crashed"
    run,                 \* number of runs started
    listed,              \* did list_blobs succeed for this run
    existing_files_set,  \* the pre-fetched set of base names
    pc,                  \* path -> position of its worker task
    result,              \* path -> status returned by the worker ("none" before)
    tmp,                 \* temp_processed_dir: filename -> "absent" | "zero" | "data"
    linked,              \* path -> the task's open output handle is still the file at its temp path
    collected,           \* futures the aggregation loop has consumed
    counts,              \* the five counters of the aggregation loop
    returned,            \* the value parallel_process_and_upload returned (-1: none yet)
    hist,                \* history of the run and of the one before (for the claims)
    \* ---- loadtobq.py, loadtobq_retry.py ----
    prog,                \* "none" | "scheduler" | "retry": the script that runs
    load_phase,          \* "idle" | "running" | "persist_errors" | "done" | "crashed"
    limit,               \* TABLE_UPDATE_LIMIT_PER_10S of this run
    batches,             \* the list of batches, each a list of URIs
    bstate,              \* batch -> "queued" | "waiting" | "sleeping" | "returned" | "collected"
    outcome,             \* batch -> what upload_batch_to_bq returned
    calls,               \* batch -> calls of client.load_table_from_uri
    recent,              \* tick -> load jobs created that many ticks ago (the last Window ticks)
    slept,               \* batch -> ticks slept after its job ended
    failed_files,        \* failed_files / retry_failed
    error_messages,      \* error_messages / retry_errors
    disk,                \* the four artifacts in the working directory
    wrote,               \* artifacts written by this run
    \* ---- process_single_file ----
    lines,               \* the input file: what each of its lines holds
    fail_at,             \* the line at which reading the stream fails (0: never)
    freturn,             \* "reading" | "True" | "False": the call's return value
    lines_processed,
    lines_failed_json,
    lines_written,
    \* ---- the functions checked on their own ----
    at,                  \* "idle" | "called" | ... | "returned": position in the call
    arg,                 \* the arguments of the call
    ret                  \* what the call has computed so far

orchVars == <<kind, store, phase, run, listed, existing_files_set, pc, result,
              tmp, linked, collected, counts, returned, hist>>

loadVars == <<prog, load_phase, limit, batches, bstate, outcome, calls,
              recent, slept, failed_files, error_messages, disk, wrote>>

fileVars == <<lines, fail_at, freturn, lines_processed, lines_failed_json, lines_written>>

funVars == <<at, arg, ret>>

vars == <<orchVars, loadVars, fileVars, funVars>>

notOrch == <<loadVars, fileVars, funVars>>
notLoad == <<orchVars, fileVars, funVars>>
notFile == <<orchVars, loadVars, funVars>>
notFun == <<orchVars, loadVars, fileVars>>

-----------------------------------------------------------------------------
(* Bounds *)

\* Runs of the orchestrator the model follows, one after the other.
MaxRuns == 2

\* MAX_WORKERS = os.cpu_count(): the width of the worker pool, on this machine.
MAX_WORKERS == 2

\* Objects listed under the prefix, at most.
MaxObjects == 3

\* MAX_TOTAL_LOAD_JOBS is drawn from 1..MaxJobs (1500 in the source).
MaxJobs == 2

\* FILES_PER_BATCH is drawn from 1..MaxBatch (50 in the source).
MaxBatch == 2

\* TABLE_UPDATE_LIMIT_PER_10S is drawn from 1..MaxLimit (100 in the source).
MaxLimit == 2

\* URIs in the longest list that is partitioned on its own, beside the lists
\* of 120, 237 and 50000 URIs.
MaxTotal == 7

\* Months and days of the date parts are drawn from -1..MaxMonth and -1..MaxDay.
MaxMonth == 13
MaxDay == 32

\* Keys of the innermost mapping of a document, and the mappings and lists
\* wrapped around it.
MaxKeys == 3
MaxNest == 2

-----------------------------------------------------------------------------
(* The clock of the load scripts *)

\* Clock ticks in the 10 seconds of "100 updates / 10s": the rate window, and
\* the minimum delay of 10.0 seconds.
Window == 1

-----------------------------------------------------------------------------
(* The state of a program that is not running *)

Absent == [exists |-> FALSE, content |-> <<>>]

\* A file of the working directory holding the given lines.
File(content) == [exists |-> TRUE, content |-> content]

NoArtifacts ==
    [FAILED_LOG |-> Absent, ERROR_LOG |-> Absent,
     RETRY_FAILED_LOG |-> Absent, RETRY_ERROR_LOG |-> Absent]

LoadIdle ==
    /\ prog = "none"
    /\ load_phase = "idle"
    /\ limit = 1
    /\ batches = <<>>
    /\ bstate = <<>>
    /\ outcome = <<>>
    /\ calls = <<>>
    /\ recent = <<>>
    /\ slept = <<>>
    /\ failed_files = <<>>
    /\ error_messages = <<>>
    /\ disk = NoArtifacts
    /\ wrote = {}

FileIdle ==
    /\ lines = <<>>
    /\ fail_at = 0
    /\ freturn = "reading"
    /\ lines_processed = 0
    /\ lines_failed_json = 0
    /\ lines_written = 0

FunIdle ==
    /\ at = "idle"
    /\ arg = <<>>
    /\ ret = <<>>

OrchIdle ==
    /\ kind = [p \in {} |-> "none"]
    /\ store = {}
    /\ phase = "idle"
    /\ run = 0
    /\ listed = FALSE
    /\ existing_files_set = {}
    /\ pc = <<>>
    /\ result = <<>>
    /\ tmp = <<>>
    /\ linked = <<>>
    /\ collected = {}
    /\ counts = <<>>
    /\ returned = -1
    /\ hist = <<>>

-----------------------------------------------------------------------------
(* The source tree *)

JSONL_GZ == "jsonl.gz"

\* Two sub-directories; x.jsonl.gz exists in both. notes.txt is not a task.
Paths ==
    { [dir |-> "a", base |-> "x", ext |-> JSONL_GZ],
      [dir |-> "b", base |-> "x", ext |-> JSONL_GZ],
      [dir |-> "a", base |-> "y", ext |-> JSONL_GZ],
      [dir |-> "a", base |-> "notes", ext |-> "txt"] }

\* valid  : decompresses, at least one line is written
\* nolines: decompresses, no line is written (every line blank or malformed)
\* corrupt: opens, but cannot be decompressed (stream-level failure)
\* none   : no such file in the tree
FileKinds == {"none", "valid", "nolines", "corrupt"}

\* os.path.basename(input_file_path)
filename(p) == <<p.base, p.ext>>

\* filename.endswith('.jsonl.gz')
endswith_jsonl_gz(p) == p.ext = JSONL_GZ

\* filename.removesuffix('.jsonl.gz')
filename_base(p) == IF p.ext = JSONL_GZ THEN <<p.base>> ELSE <<p.base, p.ext>>

\* os.path.join(gcs_dest_folder, os.path.relpath(input_file_path, local_source_dir))
gcs_path(p) == p

\* os.path.join(temp_processed_dir, filename)
temp_output_file_path(p) == filename(p)

TempNames == { filename(p) : p \in Paths }

\* The trees the model explores: only a/y may be a file without output lines.
Trees ==
    { k \in [Paths -> FileKinds] :
        \A p \in Paths :
           /\ ~endswith_jsonl_gz(p) => k[p] = "valid"
           /\ k[p] = "nolines" => p.base = "y" }

\* os.walk + the extension filter: the tasks of a run
ScanTasks == { p \in Paths : kind[p] # "none" /\ endswith_jsonl_gz(p) }

ZeroCounts ==
    [processed_count |-> 0, skipped_count |-> 0, processing_failed_count |-> 0,
     upload_failed_count |-> 0, worker_error_count |-> 0]

NoHist ==
    [startStore |-> {}, uploaded |-> {}, storeFault |-> {}, faulted |-> {},
     prevEnded |-> "none", prevClean |-> FALSE, prevStore |-> {}]

-----------------------------------------------------------------------------
(* list_processed_files_in_gcs *)

\* The same loop, were the suffix left on the names it collects.
ListedFullNames(blobs) == { filename(b) : b \in { k \in blobs : endswith_jsonl_gz(k) } }

\* The loop over the blobs: those that do not end in .jsonl.gz are passed over,
\* the others contribute os.path.basename(blob.name) without the suffix.
ListedBaseNames(blobs) == { filename_base(b) : b \in { k \in blobs : endswith_jsonl_gz(k) } }

\* ok = FALSE: list_blobs raised; the error is logged and the empty set returned.
list_processed_files_in_gcs(blobs, ok) == IF ok THEN ListedBaseNames(blobs) ELSE {}

-----------------------------------------------------------------------------
(* parallel_process_and_upload: start of a run *)

Active == { p \in Paths : pc[p] \in {"stream", "getsize", "upload"} }

CleanStatuses == {"success", "skipped"}

\* What the run that is ending leaves for the next one to be compared with.
NextHist ==
    [startStore |-> store, uploaded |-> {}, storeFault |-> {}, faulted |-> {},
     prevEnded |-> phase,
     prevClean |-> phase = "done" /\ \A p \in ScanTasks : result[p] \in CleanStatuses,
     prevStore |-> store]

StartRun ==
    /\ UNCHANGED notOrch
    /\ phase \in {"idle", "done", "killed", "crashed"}
    /\ run < MaxRuns
    /\ ScanTasks # {}
    /\ \E ok \in BOOLEAN :
          /\ listed' = ok
          /\ existing_files_set' = list_processed_files_in_gcs(store, ok)
    /\ run' = run + 1
    /\ phase' = "running"
    /\ pc' = [p \in Paths |-> IF p \in ScanTasks THEN "queued" ELSE "none"]
    /\ result' = [p \in Paths |-> "none"]
    /\ tmp' = [n \in TempNames |-> "absent"]
    /\ linked' = [p \in Paths |-> FALSE]
    /\ collected' = {}
    /\ counts' = ZeroCounts
    /\ returned' = -1
    /\ hist' = NextHist
    /\ UNCHANGED <<kind, store>>

\* "No new files found to process.": return 0 before any worker is started.
StartRunNoTasks ==
    /\ UNCHANGED notOrch
    /\ phase \in {"idle", "done", "killed", "crashed"}
    /\ run < MaxRuns
    /\ ScanTasks = {}
    /\ \E ok \in BOOLEAN :
          /\ listed' = ok
          /\ existing_files_set' = list_processed_files_in_gcs(store, ok)
    /\ run' = run + 1
    /\ phase' = "done"
    /\ pc' = [p \in Paths |-> "none"]
    /\ result' = [p \in Paths |-> "none"]
    /\ tmp' = [n \in TempNames |-> "absent"]
    /\ linked' = [p \in Paths |-> FALSE]
    /\ collected' = {}
    /\ counts' = ZeroCounts
    /\ returned' = 0
    /\ hist' = NextHist
    /\ UNCHANGED <<kind, store>>

-----------------------------------------------------------------------------
(* process_and_upload_worker, one step at a time *)

Finish(p, status) ==
    /\ pc' = [pc EXCEPT ![p] = "finished"]
    /\ result' = [result EXCEPT ![p] = status]

\* os.remove(path): every handle still open on that file is left without a name.
Unlinked(name) == [q \in Paths |-> linked[q] /\ temp_output_file_path(q) # name]

\* The same test, were it made on the filename with its suffix.
AlreadyProcessedByFilename(p, existing) == filename(p) \in existing

\* 1. "if filename_base in existing_processed_files_set"
AlreadyProcessed(p, existing) == filename_base(p) \in existing

\* The worker is given the task: the paths are derived, the task is skipped if
\* its base name is in the pre-fetched set, and otherwise process_single_file
\* opens its files: gzip.open(output_gz_path, 'wt') creates or truncates the file
\* at the temp path, and nothing reaches the disk before the handle is closed.
WorkerStart(p) ==
    /\ UNCHANGED notOrch
    /\ phase = "running"
    /\ pc[p] = "queued"
    /\ Cardinality(Active) < MAX_WORKERS
    /\ IF AlreadyProcessed(p, existing_files_set)
         THEN /\ Finish(p, "skipped")
              /\ UNCHANGED <<tmp, linked>>
         ELSE /\ pc' = [pc EXCEPT ![p] = "stream"]
              /\ tmp' = [tmp EXCEPT ![temp_output_file_path(p)] = "zero"]
              /\ linked' = [linked EXCEPT ![p] = TRUE]
              /\ UNCHANGED result
    /\ UNCHANGED <<kind, store, phase, run, listed, existing_files_set,
                   collected, counts, returned, hist>>

\* The stream-level outcome of process_single_file: False when the input cannot
\* be decompressed, True otherwise.
StreamOk(p) == kind[p] # "corrupt"

\* End of the with block: the handles are closed, which writes the gzip header,
\* the buffered lines and the trailer (a gzip file is never 0 bytes once closed).
ProcessClose(p) ==
    /\ UNCHANGED notOrch
    /\ phase = "running"
    /\ pc[p] = "stream"
    /\ tmp' = IF linked[p] THEN [tmp EXCEPT ![temp_output_file_path(p)] = "data"] ELSE tmp
    /\ linked' = [linked EXCEPT ![p] = FALSE]
    /\ IF StreamOk(p)
         THEN /\ pc' = [pc EXCEPT ![p] = "getsize"]
              /\ UNCHANGED result
         ELSE Finish(p, "processing_failed")
    /\ UNCHANGED <<kind, store, phase, run, listed, existing_files_set,
                   collected, counts, returned, hist>>

\* 3. os.path.getsize(temp_output_file_path): FileNotFoundError when the file is
\* gone (caught by the worker's except), 0 -> remove it and 'processed_empty'.
SizeCheck(p) ==
    /\ UNCHANGED notOrch
    /\ phase = "running"
    /\ pc[p] = "getsize"
    /\ LET name == temp_output_file_path(p) IN
         CASE tmp[name] = "absent" ->
                 /\ Finish(p, "worker_error")
                 /\ UNCHANGED <<tmp, linked>>
           [] tmp[name] = "zero" ->
                 /\ tmp' = [tmp EXCEPT ![name] = "absent"]
                 /\ linked' = Unlinked(name)
                 /\ Finish(p, "processed_empty")
           [] OTHER ->
                 /\ pc' = [pc EXCEPT ![p] = "upload"]
                 /\ UNCHANGED <<result, tmp, linked>>
    /\ UNCHANGED <<kind, store, phase, run, listed, existing_files_set,
                   collected, counts, returned, hist>>

\* 4. upload_to_gcs + os.remove on success. ok = FALSE: the store refuses the
\* upload (Forbidden or any other exception, both caught in upload_to_gcs).
\* A missing local file raises inside upload_from_filename and is caught there too.
Upload(p) ==
    /\ UNCHANGED notOrch
    /\ phase = "running"
    /\ pc[p] = "upload"
    /\ LET name == temp_output_file_path(p) IN
         IF tmp[name] = "absent"
           THEN /\ Finish(p, "upload_failed")
                /\ UNCHANGED <<store, tmp, linked, hist>>
           ELSE \E ok \in BOOLEAN :
                  IF ok
                    THEN /\ store' = store \cup {gcs_path(p)}
                         /\ tmp' = [tmp EXCEPT ![name] = "absent"]
                         /\ linked' = Unlinked(name)
                         /\ hist' = [hist EXCEPT !.uploaded = @ \cup {p}]
                         /\ Finish(p, "success")
                    ELSE /\ hist' = [hist EXCEPT !.storeFault = @ \cup {p}]
                         /\ Finish(p, "upload_failed")
                         /\ UNCHANGED <<store, tmp, linked>>
    /\ UNCHANGED <<kind, phase, run, listed, existing_files_set,
                   collected, counts, returned>>

\* The same, were the exception to leave the worker and the aggregation loop.
WorkerFaultPropagates(p) ==
    /\ UNCHANGED notOrch
    /\ phase = "running"
    /\ pc[p] \in {"getsize", "upload"}
    /\ phase' = "crashed"
    /\ hist' = [hist EXCEPT !.faulted = @ \cup {p}]
    /\ UNCHANGED <<kind, store, run, listed, existing_files_set, pc, result, tmp,
                   linked, collected, counts, returned>>

\* "except Exception as e": an unexpected exception between the worker's calls is
\* logged and returned as ('worker_error', ...).
WorkerFault(p) ==
    /\ UNCHANGED notOrch
    /\ phase = "running"
    /\ pc[p] \in {"getsize", "upload"}
    /\ Finish(p, "worker_error")
    /\ hist' = [hist EXCEPT !.faulted = @ \cup {p}]
    /\ UNCHANGED <<kind, store, phase, run, listed, existing_files_set, tmp,
                   linked, collected, counts, returned>>

-----------------------------------------------------------------------------
(* parallel_process_and_upload: the aggregation loop and the end of the run *)

\* The chain, were only the two outcomes without a failure counted.
TallyCleanOnly(c, status) ==
    CASE status = "success" -> [c EXCEPT !.processed_count = @ + 1]
      [] status = "skipped" -> [c EXCEPT !.skipped_count = @ + 1]
      [] OTHER              -> c

\* The if/elif chain over status. (The worker catches every Exception itself,
\* so future.result() hands back a status tuple.)
Tally(c, status) ==
    CASE status = "success"           -> [c EXCEPT !.processed_count = @ + 1]
      [] status = "skipped"           -> [c EXCEPT !.skipped_count = @ + 1]
      [] status = "processing_failed" -> [c EXCEPT !.processing_failed_count = @ + 1]
      [] status = "upload_failed"     -> [c EXCEPT !.upload_failed_count = @ + 1]
      [] status = "processed_empty"   -> [c EXCEPT !.processing_failed_count = @ + 1]
      [] status = "worker_error"      -> [c EXCEPT !.worker_error_count = @ + 1]
      [] OTHER                        -> c

\* for future in as_completed(futures): one completed future is consumed.
Collect(p) ==
    /\ UNCHANGED notOrch
    /\ phase = "running"
    /\ pc[p] = "finished"
    /\ p \notin collected
    /\ collected' = collected \cup {p}
    /\ counts' = Tally(counts, result[p])
    /\ UNCHANGED <<kind, store, phase, run, listed, existing_files_set, pc,
                   result, tmp, linked, returned, hist>>

\* The end of the run, were the temporary directory left as the workers left it.
RunEndKeepsDirectory ==
    /\ UNCHANGED notOrch
    /\ phase = "running"
    /\ collected = ScanTasks
    /\ phase' = "done"
    /\ returned' = counts.processed_count
    /\ UNCHANGED <<kind, store, run, listed, existing_files_set, pc, result,
                   tmp, linked, collected, counts, hist>>

\* Both with blocks are left: the pool is shut down, the TemporaryDirectory is
\* removed with everything in it, and processed_count is returned.
RunEnd ==
    /\ UNCHANGED notOrch
    /\ phase = "running"
    /\ collected = ScanTasks
    /\ tmp' = [n \in TempNames |-> "absent"]
    /\ phase' = "done"
    /\ returned' = counts.processed_count
    /\ UNCHANGED <<kind, store, run, listed, existing_files_set, pc, result,
                   linked, collected, counts, hist>>

\* The process is terminated in the middle of a run (no cancellation exists):
\* the workers, their futures and the counters die with it, the temporary
\* directory of that run is never used again, and what was uploaded stays.
Kill ==
    /\ UNCHANGED notOrch
    /\ phase = "running"
    /\ phase' = "killed"
    /\ pc' = [p \in Paths |-> "none"]
    /\ result' = [p \in Paths |-> "none"]
    /\ tmp' = [n \in TempNames |-> "absent"]
    /\ linked' = [p \in Paths |-> FALSE]
    /\ collected' = {}
    /\ counts' = ZeroCounts
    /\ UNCHANGED <<kind, store, run, listed, existing_files_set, returned, hist>>

-----------------------------------------------------------------------------
(* The orchestrator's specification *)

InitOrch ==
    /\ LoadIdle
    /\ FileIdle
    /\ FunIdle
    /\ kind \in Trees
    /\ store = {}
    /\ phase = "idle"
    /\ run = 0
    /\ listed = FALSE
    /\ existing_files_set = {}
    /\ pc = [p \in Paths |-> "none"]
    /\ result = [p \in Paths |-> "none"]
    /\ tmp = [n \in TempNames |-> "absent"]
    /\ linked = [p \in Paths |-> FALSE]
    /\ collected = {}
    /\ counts = ZeroCounts
    /\ returned = -1
    /\ hist = NoHist

NextOrch ==
    \/ StartRun
    \/ StartRunNoTasks
    \/ \E p \in Paths : WorkerStart(p)
    \/ \E p \in Paths : ProcessClose(p)
    \/ \E p \in Paths : SizeCheck(p)
    \/ \E p \in Paths : Upload(p)
    \/ \E p \in Paths : WorkerFault(p)
    \/ \E p \in Paths : Collect(p)
    \/ RunEnd
    \/ Kill

SpecOrch == InitOrch /\ [][NextOrch]_vars

-----------------------------------------------------------------------------
(* loadtobq.py and loadtobq_retry.py: batching *)

RangeOf(seq) == { seq[i] : i \in DOMAIN seq }

Min(a, b) == IF a <= b THEN a ELSE b

\* math.ceil(a / b) for naturals a and b >= 1. The quotient a / b is a float; it
\* is exact enough for ceil to be the integer ceiling whenever a < 2^53, and a
\* list of that length does not fit in memory.
ceil_div(a, b) == (a + b - 1) \div b

\* The batch size, were the quotient rounded down.
files_per_batch_floor(total_files, max_total_load_jobs) == total_files \div max_total_load_jobs

\* files_per_batch = ceil(total_files / MAX_TOTAL_LOAD_JOBS)
files_per_batch(total_files, max_total_load_jobs) == ceil_div(total_files, max_total_load_jobs)

\* The batches, were a last batch shorter than size left out.
PartitionFullOnly(files, size) ==
    [k \in 1..(Len(files) \div size) |-> SubSeq(files, (k - 1) * size + 1, k * size)]

\* [files[i:i + size] for i in range(0, total_files, size)], size >= 1
Partition(files, size) ==
    [k \in 1..ceil_div(Len(files), size) |->
        SubSeq(files, (k - 1) * size + 1, Min(k * size, Len(files)))]

\* all_files: the URIs of the objects listed under the prefix (n of them).
Listing(n) == [i \in 1..n |-> i]

\* A line of a ledger that is empty once stripped.
BlankLine == 0

\* The lines read back from a ledger: "[line.strip() for line in f if line.strip()]".
\* A URI has no white space at either end, so strip leaves it as it was written.
ReadLedger(file) == SelectSeq(file, LAMBDA line : line # BlankLine)

-----------------------------------------------------------------------------
(* loadtobq.py and loadtobq_retry.py: main, start of a run *)

\* The failure artifact, were the retry driver to write the ledger it reads.
FailedLogShared(program) == "FAILED_LOG"

FailedLogOf(program) == IF program = "scheduler" THEN "FAILED_LOG" ELSE "RETRY_FAILED_LOG"
ErrorLogOf(program) == IF program = "scheduler" THEN "ERROR_LOG" ELSE "RETRY_ERROR_LOG"

\* One of the two scripts is started in the working directory.
CanStartLoad == load_phase = "idle"

\* No load job in the last Window ticks.
NoJobs == [t \in 1..Window |-> 0]

\* The state of main before the pool is entered.
SetupRun(program, bs, lim) ==
    /\ prog' = program
    /\ load_phase' = "running"
    /\ limit' = lim
    /\ batches' = bs
    /\ bstate' = [b \in DOMAIN bs |-> "queued"]
    /\ outcome' = [b \in DOMAIN bs |-> "none"]
    /\ calls' = [b \in DOMAIN bs |-> 0]
    /\ recent' = NoJobs
    /\ slept' = [b \in DOMAIN bs |-> 0]
    /\ failed_files' = <<>>
    /\ error_messages' = <<>>
    /\ wrote' = {}
    /\ UNCHANGED disk

\* A run that ends before it has any batch.
EndAtStart(program, how) ==
    /\ prog' = program
    /\ load_phase' = how
    /\ batches' = <<>>
    /\ bstate' = <<>>
    /\ outcome' = <<>>
    /\ calls' = <<>>
    /\ recent' = <<>>
    /\ slept' = <<>>
    /\ failed_files' = <<>>
    /\ error_messages' = <<>>
    /\ wrote' = {}
    /\ UNCHANGED <<limit, disk>>

\* loadtobq.main with at least one object listed.
StartScheduler ==
    /\ UNCHANGED notLoad
    /\ CanStartLoad
    /\ \E n \in 1..MaxObjects, jobs \in 1..MaxJobs, lim \in 1..MaxLimit :
          SetupRun("scheduler", Partition(Listing(n), files_per_batch(n, jobs)), lim)

\* loadtobq.main with no object listed: files_per_batch = ceil(0 / 1500) = 0 and
\* range(0, 0, 0) raises ValueError; main ends there, before any artifact is written.
StartSchedulerNoFiles ==
    /\ UNCHANGED notLoad
    /\ CanStartLoad
    /\ \E jobs \in 1..MaxJobs : files_per_batch(0, jobs) = 0
    /\ EndAtStart("scheduler", "crashed")

\* loadtobq_retry.main with failed_uploads.txt present.
StartRetry ==
    /\ UNCHANGED notLoad
    /\ CanStartLoad
    /\ disk.FAILED_LOG.exists
    /\ \E size \in 1..MaxBatch, lim \in 1..MaxLimit :
          SetupRun("retry", Partition(ReadLedger(disk.FAILED_LOG.content), size), lim)

\* loadtobq_retry.main without failed_uploads.txt: "not found", return.
StartRetryNoLedger ==
    /\ UNCHANGED notLoad
    /\ CanStartLoad
    /\ ~disk.FAILED_LOG.exists
    /\ EndAtStart("retry", "done")

-----------------------------------------------------------------------------
(* upload_batch_to_bq, one step at a time *)

Batches == DOMAIN batches

Busy == { b \in Batches : bstate[b] \in {"waiting", "sleeping"} }

\* The executor's queue is first in, first out.
NextQueued(b) == bstate[b] = "queued" /\ \A c \in Batches : c < b => bstate[c] # "queued"

\* DELAY_BETWEEN_BATCHES = max((MAX_WORKERS / TABLE_UPDATE_LIMIT_PER_10S) * 10, 10.0);
\* time.sleep returns once at least that long has passed (t ticks, no division).
SleepOver(t, lim) == t * lim >= MAX_WORKERS * Window /\ t >= Window

\* Ticks after which a sleep is over whatever the limit.
SleepCap == MAX_WORKERS * Window

\* The except branch, were the failed batch put back in the queue.
FailedAndRequeued(b, err) ==
    /\ bstate' = [bstate EXCEPT ![b] = "queued"]
    /\ UNCHANGED <<outcome, load_phase>>

\* The except branch, were the exception to leave upload_batch_to_bq.
FailedAndRaised(b, err) ==
    /\ load_phase' = "crashed"
    /\ UNCHANGED <<bstate, outcome>>

\* "except Exception as e: ... return (gcs_uris, False, str(e))": no sleep.
Failed(b, err) ==
    /\ bstate' = [bstate EXCEPT ![b] = "returned"]
    /\ outcome' = [outcome EXCEPT ![b] = [success |-> FALSE, err |-> err]]
    /\ UNCHANGED load_phase

\* A worker thread takes the next batch and calls client.load_table_from_uri:
\* the job is created, or the call raises.
IssueJob(b) ==
    /\ UNCHANGED notLoad
    /\ load_phase = "running"
    /\ NextQueued(b)
    /\ Cardinality(Busy) < MAX_WORKERS
    /\ calls' = [calls EXCEPT ![b] = @ + 1]
    /\ \E created \in BOOLEAN :
          IF created
            THEN /\ bstate' = [bstate EXCEPT ![b] = "waiting"]
                 /\ recent' = [recent EXCEPT ![1] = @ + 1]
                 /\ UNCHANGED <<outcome, load_phase>>
            ELSE /\ Failed(b, "submit_fault")
                 /\ UNCHANGED recent
    /\ UNCHANGED <<prog, limit, batches, slept, failed_files,
                   error_messages, disk, wrote>>

\* load_job.result() returns (the job succeeded: the worker goes to sleep) or
\* raises ("load_error": the warehouse reports a load error, or the wait fails).
JobResult(b) ==
    /\ UNCHANGED notLoad
    /\ load_phase = "running"
    /\ bstate[b] = "waiting"
    /\ \E r \in {"ok", "load_error"} :
          IF r = "ok"
            THEN /\ bstate' = [bstate EXCEPT ![b] = "sleeping"]
                 /\ UNCHANGED <<outcome, load_phase>>
            ELSE Failed(b, r)
    /\ UNCHANGED <<prog, limit, batches, calls, recent, slept,
                   failed_files, error_messages, disk, wrote>>

\* time.sleep(DELAY_BETWEEN_BATCHES) is over: return (gcs_uris, True, None).
Wake(b) ==
    /\ UNCHANGED notLoad
    /\ load_phase = "running"
    /\ bstate[b] = "sleeping"
    /\ SleepOver(slept[b], limit)
    /\ bstate' = [bstate EXCEPT ![b] = "returned"]
    /\ outcome' = [outcome EXCEPT ![b] = [success |-> TRUE, err |-> "none"]]
    /\ UNCHANGED <<prog, load_phase, limit, batches, calls, recent, slept,
                   failed_files, error_messages, disk, wrote>>

\* One tick of the clock: the jobs of the oldest tick leave the window, every
\* sleeper has slept one tick longer.
Tick ==
    /\ UNCHANGED notLoad
    /\ load_phase = "running"
    /\ \/ recent # NoJobs
       \/ \E b \in Batches : bstate[b] = "sleeping" /\ slept[b] < SleepCap
    /\ recent' = [t \in 1..Window |-> IF t = 1 THEN 0 ELSE recent[t - 1]]
    /\ slept' = [b \in Batches |->
                    IF bstate[b] = "sleeping" /\ slept[b] < SleepCap THEN slept[b] + 1 ELSE slept[b]]
    /\ UNCHANGED <<prog, load_phase, limit, batches, bstate, outcome, calls,
                   failed_files, error_messages, disk, wrote>>

-----------------------------------------------------------------------------
(* main: the loop over as_completed and the two artifacts *)

\* The loop body, were the "if not success" test left out.
CollectLoadEveryBatch(b) ==
    /\ UNCHANGED notLoad
    /\ load_phase = "running"
    /\ bstate[b] = "returned"
    /\ bstate' = [bstate EXCEPT ![b] = "collected"]
    /\ failed_files' = failed_files \o batches[b]
    /\ error_messages' = Append(error_messages, [uris |-> batches[b], err |-> outcome[b].err])
    /\ UNCHANGED <<prog, load_phase, limit, batches, outcome, calls, recent,
                   slept, disk, wrote>>

\* gcs_uris, success, err = future.result(); if not success: extend and append.
CollectLoad(b) ==
    /\ UNCHANGED notLoad
    /\ load_phase = "running"
    /\ bstate[b] = "returned"
    /\ bstate' = [bstate EXCEPT ![b] = "collected"]
    /\ IF outcome[b].success
         THEN UNCHANGED <<failed_files, error_messages>>
         ELSE /\ failed_files' = failed_files \o batches[b]
              /\ error_messages' = Append(error_messages, [uris |-> batches[b], err |-> outcome[b].err])
    /\ UNCHANGED <<prog, load_phase, limit, batches, outcome, calls, recent,
                   slept, disk, wrote>>

\* The with block is left once every future is done; open(FAILED_LOG, "w") and
\* one line per failed file.
PersistFailed ==
    /\ UNCHANGED notLoad
    /\ load_phase = "running"
    /\ \A b \in Batches : bstate[b] = "collected"
    /\ disk' = [disk EXCEPT ![FailedLogOf(prog)] = File(failed_files)]
    /\ wrote' = wrote \cup {FailedLogOf(prog)}
    /\ load_phase' = "persist_errors"
    /\ UNCHANGED <<prog, limit, batches, bstate, outcome, calls, recent, slept,
                   failed_files, error_messages>>

\* open(ERROR_LOG, "w") and one line per error message; main returns.
PersistErrors ==
    /\ UNCHANGED notLoad
    /\ load_phase = "persist_errors"
    /\ disk' = [disk EXCEPT ![ErrorLogOf(prog)] = File(error_messages)]
    /\ wrote' = wrote \cup {ErrorLogOf(prog)}
    /\ load_phase' = "done"
    /\ UNCHANGED <<prog, limit, batches, bstate, outcome, calls, recent, slept,
                   failed_files, error_messages>>

-----------------------------------------------------------------------------
(* The specification of the two load scripts *)

\* The two artifacts a run leaves when one batch holding the given URIs failed
\* (none failed if there are no URIs).
ArtifactsOf(uris) ==
    [failed |-> File(uris),
     errors |-> File(IF uris = <<>> THEN <<>> ELSE <<[uris |-> uris, err |-> "load_error"]>>)]

\* What earlier runs may have left in the working directory: nothing, or the
\* artifacts of a scheduler run with up to MaxObjects failed URIs and, with
\* these, the artifacts of a retry pass.
Leftovers ==
    {NoArtifacts} \cup
    { [FAILED_LOG |-> ArtifactsOf(Listing(k)).failed,
       ERROR_LOG |-> ArtifactsOf(Listing(k)).errors,
       RETRY_FAILED_LOG |-> r.failed,
       RETRY_ERROR_LOG |-> r.errors] :
        k \in 0..MaxObjects,
        r \in {[failed |-> Absent, errors |-> Absent], ArtifactsOf(Listing(1))} }

InitLoad ==
    /\ OrchIdle
    /\ FileIdle
    /\ FunIdle
    /\ prog = "none"
    /\ load_phase = "idle"
    /\ limit = 1
    /\ batches = <<>>
    /\ bstate = <<>>
    /\ outcome = <<>>
    /\ calls = <<>>
    /\ recent = <<>>
    /\ slept = <<>>
    /\ failed_files = <<>>
    /\ error_messages = <<>>
    /\ disk \in Leftovers
    /\ wrote = {}

NextLoad ==
    \/ StartScheduler
    \/ StartSchedulerNoFiles
    \/ StartRetry
    \/ StartRetryNoLedger
    \/ \E b \in Batches : IssueJob(b)
    \/ \E b \in Batches : JobResult(b)
    \/ \E b \in Batches : Wake(b)
    \/ Tick
    \/ \E b \in Batches : CollectLoad(b)
    \/ PersistFailed
    \/ PersistErrors

SpecLoad == InitLoad /\ [][NextLoad]_vars

-----------------------------------------------------------------------------
(* Claims about the orchestrator (SpecOrch) *)

Tasks == ScanTasks

FailedStatuses == {"processing_failed", "processed_empty", "upload_failed", "worker_error"}

InProcessing(p) == pc[p] \in {"stream", "getsize", "upload"}

\* A step of the run that is not its termination from outside.
RunProgress ==
    \/ \E p \in Paths : WorkerStart(p) \/ ProcessClose(p) \/ SizeCheck(p) \/ Upload(p) \/ Collect(p)
    \/ RunEnd

\* The run that has just ended followed a run that ended normally.
SecondRunDone == phase = "done" /\ hist.prevEnded = "done"

AllSkippedNothingUploaded ==
    /\ \A p \in Tasks : result[p] = "skipped"
    /\ hist.uploaded = {}
    /\ store = hist.prevStore

Resumed == phase \in {"running", "done"} /\ hist.prevEnded = "killed"

UploadedFilesAreSkipped ==
    \A p \in Tasks :
        gcs_path(p) \in hist.startStore =>
            /\ ~InProcessing(p)
            /\ p \notin hist.uploaded
            /\ result[p] \in {"none", "skipped"}

C5_EveryFileHasItsObject ==
    (phase = "done" /\ \A p \in Tasks : result[p] \notin FailedStatuses)
        => store = { gcs_path(p) : p \in Tasks }

\* C7: in a tree of valid, non-empty files and files that cannot be decompressed,
\* none uploaded before, with every upload accepted and no unexpected fault, the run
\* returns the number of valid files, and each task has its own outcome: Success
\* for a valid file, ProcessingFailed for a failing one.
C7_FailingFileChangesNoOtherOutcome ==
    ( /\ phase = "done"
      /\ hist.startStore = {} /\ hist.storeFault = {} /\ hist.faulted = {}
      /\ \A p \in Tasks : kind[p] \in {"valid", "corrupt"}
      /\ \E p \in Tasks : kind[p] = "corrupt" )
    => /\ returned = Cardinality({ p \in Tasks : kind[p] = "valid" })
       /\ \A p \in Tasks :
             result[p] = IF kind[p] = "corrupt" THEN "processing_failed" ELSE "success"

\* C8: an unexpected exception in a worker task becomes that task's WorkerError
\* outcome and never ends the run: while the run is in progress it can always take
\* a further step, and when it ends every task has an outcome, the faulted
\* ones are counted as worker errors and the Success count is returned.
C8_FaultsAreCaptured ==
    /\ phase # "crashed"
    /\ phase \in {"running", "done"} => \A p \in hist.faulted : result[p] = "worker_error"
    /\ phase = "running" => ENABLED RunProgress
    /\ phase = "done" =>
          /\ \A p \in Tasks : result[p] # "none"
          /\ counts.worker_error_count = Cardinality({ p \in Tasks : result[p] = "worker_error" })
          /\ returned = Cardinality({ p \in Tasks : result[p] = "success" })

C8_Witness ==
    /\ phase = "done"
    /\ hist.faulted # {}
    /\ counts.worker_error_count >= 1
    /\ \E q \in Tasks : result[q] = "success"
    /\ returned >= 1

-----------------------------------------------------------------------------
(* crossref_cleanup.py: process_single_file, one line at a time *)

\* Lines of the longest input file.
MaxLines == 3

\* What a line of the input is: a JSON document, a line that is empty once
\* stripped, a line that is not JSON, the JSON value null, or a JSON line whose
\* decoding, transformation or writing raises something else than
\* JSONDecodeError (RecursionError on deep nesting, OverflowError on a
\* date part of 1e999, an OSError of outfile.write).
LineKinds == {"doc", "blank", "malformed", "null", "error"}

InputFiles == UNION { [1..n -> LineKinds] : n \in 0..MaxLines }

\* "if not stripped_line", were no line taken as blank.
never_stripped_empty(line) == FALSE

\* "stripped_line = line.strip(); if not stripped_line: continue"
stripped_empty(line) == line = "blank"

\* json.loads(stripped_line) raises JSONDecodeError; the empty string is not JSON.
JSONDecodeError(line) == line \in {"malformed", "blank"}

\* Any other exception of the loop body: "except Exception as process_err".
process_err(line) == line = "error"

\* "if transformed_data is not None": only null is transformed to None.
transformed_is_None(line) == line = "null"

\* One iteration of "for line in infile".
ReadLine ==
    /\ UNCHANGED notFile
    /\ freturn = "reading"
    /\ lines_processed < Len(lines)
    /\ fail_at # lines_processed + 1
    /\ lines_processed' = lines_processed + 1
    /\ LET line == lines[lines_processed + 1] IN
         IF stripped_empty(line)
           THEN UNCHANGED <<lines_failed_json, lines_written>>
           ELSE IF JSONDecodeError(line)
             THEN /\ lines_failed_json' = lines_failed_json + 1
                  /\ UNCHANGED lines_written
             ELSE IF process_err(line) \/ transformed_is_None(line)
               THEN UNCHANGED <<lines_failed_json, lines_written>>
               ELSE /\ lines_written' = lines_written + 1
                    /\ UNCHANGED lines_failed_json
    /\ UNCHANGED <<lines, fail_at, freturn>>

\* The input cannot be opened or read further, or the output cannot be opened
\* or closed: "except Exception as e: ... return False".
StreamFailure ==
    /\ UNCHANGED notFile
    /\ freturn = "reading"
    /\ fail_at = lines_processed + 1
    /\ freturn' = "False"
    /\ UNCHANGED <<lines, fail_at, lines_processed, lines_failed_json, lines_written>>

\* The loop and the with block are left: "return True".
ReturnTrue ==
    /\ UNCHANGED notFile
    /\ freturn = "reading"
    /\ lines_processed = Len(lines)
    /\ fail_at = 0
    /\ freturn' = "True"
    /\ UNCHANGED <<lines, fail_at, lines_processed, lines_failed_json, lines_written>>

\* fail_at: 0 if the streams hold to the end, else the read that fails
\* (Len(lines) + 1: the end of the input or the close of the output).
InitFile ==
    /\ OrchIdle
    /\ LoadIdle
    /\ FunIdle
    /\ lines \in InputFiles
    /\ fail_at \in 0..(Len(lines) + 1)
    /\ freturn = "reading"
    /\ lines_processed = 0
    /\ lines_failed_json = 0
    /\ lines_written = 0

NextFile ==
    \/ ReadLine
    \/ StreamFailure
    \/ ReturnTrue

SpecFile == InitFile /\ [][NextFile]_vars

-----------------------------------------------------------------------------
(* loadtobq.py and loadtobq_retry.py: the batches of a run, on their own *)

\* The calls checked: every list of up to MaxTotal URIs with every ceiling
\* (scheduler) or batch size (retry) up to MaxTotal + 1, and the lists of 237
\* and 50000 URIs under the ceiling of 1500, and of 120 URIs at batch size 50.
BatchCalls ==
    { [script |-> sc, total_files |-> n, param |-> m] :
        sc \in {"scheduler", "retry"}, n \in 0..MaxTotal, m \in 1..(MaxTotal + 1) }
    \cup { [script |-> "scheduler", total_files |-> n, param |-> 1500] : n \in {237, 50000} }
    \cup { [script |-> "retry", total_files |-> 120, param |-> 50] }

\* total_files = len(all_files); files_per_batch = ceil(...) in the scheduler,
\* FILES_PER_BATCH in the retry driver.
BatchSize ==
    /\ UNCHANGED notFun
    /\ at = "called"
    /\ at' = "sized"
    /\ ret' = [ret EXCEPT !.files_per_batch =
                  IF arg.script = "scheduler"
                    THEN files_per_batch(arg.total_files, arg.param)
                    ELSE arg.param]
    /\ UNCHANGED arg

\* batches = [all_files[i:i + files_per_batch] for i in range(0, total_files, files_per_batch)]
MakeBatches ==
    /\ UNCHANGED notFun
    /\ at = "sized"
    /\ ret.files_per_batch >= 1
    /\ at' = "returned"
    /\ ret' = [ret EXCEPT !.batches = Partition(Listing(arg.total_files), ret.files_per_batch)]
    /\ UNCHANGED arg

\* range(0, total_files, 0): "ValueError: range() arg 3 must not be zero".
MakeBatchesRaises ==
    /\ UNCHANGED notFun
    /\ at = "sized"
    /\ ret.files_per_batch = 0
    /\ at' = "raised"
    /\ UNCHANGED <<arg, ret>>

InitBatch ==
    /\ OrchIdle
    /\ LoadIdle
    /\ FileIdle
    /\ at = "called"
    /\ arg \in BatchCalls
    /\ ret = [files_per_batch |-> 0, batches |-> <<>>]

NextBatch ==
    \/ BatchSize
    \/ MakeBatches
    \/ MakeBatchesRaises

SpecBatch == InitBatch /\ [][NextBatch]_vars

-----------------------------------------------------------------------------
(* crossref_cleanup.py: date_parts_to_date *)

\* Python's None.
None == <<"None">>

\* A decimal digit as a character.
Digit(n) == <<"0", "1", "2", "3", "4", "5", "6", "7", "8", "9">>[n + 1]

\* "%04d" and "%02d" of date.isoformat, for 0 <= n <= 9999 and 0 <= n <= 99.
Digits4(n) ==
    <<Digit(n \div 1000), Digit((n \div 100) % 10), Digit((n \div 10) % 10), Digit(n % 10)>>

Digits2(n) == <<Digit(n \div 10), Digit(n % 10)>>

\* datetime.date(year, month, day).isoformat(): "YYYY-MM-DD"
isoformat(year, month, day) ==
    Digits4(year) \o <<"-">> \o Digits2(month) \o <<"-">> \o Digits2(day)

\* A JSON integer is unbounded. The year is held as <<hi, lo>>, standing for
\* hi * 2^30 + lo with 0 <= lo < 2^30, so that years beyond a C int can be told
\* from those within; months and days are held as they are.
Base == 2^30

Wide(n) == <<n \div Base, n % Base>>

IntOf(w) == w[1] * Base + w[2]

\* The arguments of datetime.date are converted to a C int: -2^31 .. 2^31 - 1.
FitsCInt(w) == w[1] \in (-2)..1

INT_MAX == Base + (Base - 1)

is_leap(year) == year % 4 = 0 /\ (year % 100 # 0 \/ year % 400 = 0)

days_in_month(year, month) ==
    IF month = 2 THEN (IF is_leap(year) THEN 29 ELSE 28)
    ELSE IF month \in {4, 6, 9, 11} THEN 30 ELSE 31

\* datetime.date(year, month, day): OverflowError when an argument does not
\* fit a C int, ValueError when year is not in MINYEAR..MAXYEAR (1..9999) or
\* month and day do not name a day of that year, else the date.
date(year, month, day) ==
    IF ~FitsCInt(year)
      THEN "OverflowError"
    ELSE IF IntOf(year) < 1 \/ IntOf(year) > 9999 \/ month < 1 \/ month > 12
            \/ day < 1 \/ day > days_in_month(IntOf(year), month)
      THEN "ValueError"
    ELSE "date"

\* max(1, min(hi, v))
clamp(hi, v) == IF v > hi THEN hi ELSE IF v < 1 THEN 1 ELSE v

\* year, month and day before the date is built, for input_list = [parts] with
\* parts a non-empty list of integers: a missing month or day is 1 (the year
\* is present), month = max(1, min(12, month)), day = max(1, min(31, day)).
ymd(input_list) ==
    LET parts == input_list[1] IN
      [year |-> parts[1],
       month |-> clamp(12, IF Len(parts) > 1 THEN parts[2] ELSE 1),
       day |-> clamp(31, IF Len(parts) > 2 THEN parts[3] ELSE 1)]

\* date_parts_to_date(input_list): the inner "except ValueError" returns None;
\* OverflowError is not among (ValueError, TypeError, IndexError) and leaves
\* the function.
date_parts_to_date(input_list) ==
    LET p == ymd(input_list)
        made == date(p.year, p.month, p.day)
    IN  CASE made = "date" -> [raised |-> "no", value |-> isoformat(IntOf(p.year), p.month, p.day)]
          [] made = "ValueError" -> [raised |-> "no", value |-> None]
          [] OTHER -> [raised |-> made, value |-> None]

\* The years the conversion is called with; the last two are 2^31 and -2^31 - 1.
Years ==
    { Wide(y) : y \in {-1, 0, 1, 5, 999, 2000, 2023, 2024, 2100, 9999, 10000, INT_MAX, -INT_MAX - 1} }
    \cup {<<2, 0>>, <<-3, Base - 1>>}

\* [[year]], [[year, month]] and [[year, month, day]]
DatePartsInputs ==
    { <<<<y>>>> : y \in Years }
    \cup { <<<<y, m>>>> : y \in Years, m \in (-1)..MaxMonth }
    \cup { <<<<Wide(y), m, d>>>> : y \in {5, 2000, 2023, 2024, 2100, 10000},
                                  m \in (-1)..MaxMonth, d \in (-1)..MaxDay }

\* The call returns.
DateReturns ==
    /\ UNCHANGED notFun
    /\ at = "called"
    /\ date_parts_to_date(arg).raised = "no"
    /\ at' = "returned"
    /\ ret' = date_parts_to_date(arg).value
    /\ UNCHANGED arg

\* The call is left by an exception.
DateRaises ==
    /\ UNCHANGED notFun
    /\ at = "called"
    /\ date_parts_to_date(arg).raised # "no"
    /\ at' = "raised"
    /\ ret' = <<date_parts_to_date(arg).raised>>
    /\ UNCHANGED arg

InitDate ==
    /\ OrchIdle
    /\ LoadIdle
    /\ FileIdle
    /\ at = "called"
    /\ arg \in DatePartsInputs
    /\ ret = <<>>

NextDate ==
    \/ DateReturns
    \/ DateRaises

SpecDate == InitDate /\ [][NextDate]_vars

-----------------------------------------------------------------------------
(* crossref_cleanup.py: recursively_flatten_date_parts *)

\* A decoded JSON value: its class, its items (the keys and values of a dict in
\* insertion order, the elements of a list, the characters of a string) and
\* its number (an integer, held as the year is).
Item(key, val) == [key |-> key, val |-> val]

\* What stands for the value of an item that has none (a character).
Nil == [class |-> "", items |-> <<>>, num |-> Wide(0)]

JDict(items) == [class |-> "dict", items |-> items, num |-> Wide(0)]
JList(elems) == [class |-> "list", items |-> [i \in DOMAIN elems |-> Item("", elems[i])], num |-> Wide(0)]
JStr(chars) == [class |-> "str", items |-> [i \in DOMAIN chars |-> Item(chars[i], Nil)], num |-> Wide(0)]
JInt(w) == [class |-> "int", items |-> <<>>, num |-> w]
JNone == [class |-> "None", items |-> <<>>, num |-> Wide(0)]

\* The elements of a list.
Elems(obj) == [i \in DOMAIN obj.items |-> obj.items[i].val]

DATE_PARTS == "date-parts"

Keys(items) == { items[i].key : i \in DOMAIN items }

\* d[key] for a key of d
Get(items, key) == items[CHOOSE i \in DOMAIN items : items[i].key = key].val

\* new_obj[key] = value: a key the dict has keeps its place and takes the new
\* value, a new key is added at the end.
DictSet(items, key, value) ==
    IF key \in Keys(items)
      THEN [i \in DOMAIN items |-> IF items[i].key = key THEN Item(key, value) ELSE items[i]]
      ELSE Append(items, Item(key, value))

\* new_obj['date'] = ..., were the date-parts key kept beside it.
flatten_date_parts_kept(new_obj, value, converted) ==
    DictSet(DictSet(new_obj, DATE_PARTS, value), "date", converted)

\* "if key == 'date-parts': new_obj['date'] = date_parts_to_date(value)"
flatten_date_parts(new_obj, value, converted) == DictSet(new_obj, "date", converted)

\* date_parts_to_date on a decoded value: None unless it is a non-empty list
\* whose first element is a non-empty list; the parts of the documents of this
\* model are integers.
date_parts_value(value) ==
    IF value.class # "list" \/ value.items = <<>> THEN [raised |-> "no", value |-> JNone]
    ELSE IF Elems(value)[1].class # "list" \/ Elems(value)[1].items = <<>>
      THEN [raised |-> "no", value |-> JNone]
    ELSE LET parts == Elems(Elems(value)[1])
             input_list == << [i \in DOMAIN parts |->
                                  IF i = 1 THEN parts[i].num ELSE IntOf(parts[i].num)] >>
             r == date_parts_to_date(input_list)
         IN  [raised |-> r.raised,
              value |-> IF r.value = None THEN JNone ELSE JStr(r.value)]

RECURSIVE recursively_flatten_date_parts(_)
RECURSIVE flatten_dict(_, _)
RECURSIVE flatten_list(_, _)

\* "for key, value in obj.items()": the items left to visit, new_obj so far.
flatten_dict(items, new_obj) ==
    IF items = <<>> THEN [raised |-> "no", value |-> JDict(new_obj)]
    ELSE LET key == Head(items).key
             value == Head(items).val
         IN  IF key = DATE_PARTS
               THEN LET r == date_parts_value(value) IN
                      IF r.raised # "no" THEN r
                      ELSE flatten_dict(Tail(items), flatten_date_parts(new_obj, value, r.value))
               ELSE LET r == recursively_flatten_date_parts(value) IN
                      IF r.raised # "no" THEN r
                      ELSE flatten_dict(Tail(items), DictSet(new_obj, key, r.value))

\* "[recursively_flatten_date_parts(item) for item in obj]": the elements left
\* to visit, the new list so far.
flatten_list(items, done) ==
    IF items = <<>> THEN [raised |-> "no", value |-> JList(done)]
    ELSE LET r == recursively_flatten_date_parts(Head(items)) IN
           IF r.raised # "no" THEN r
           ELSE flatten_list(Tail(items), Append(done, r.value))

recursively_flatten_date_parts(obj) ==
    IF obj.class = "dict" THEN flatten_dict(obj.items, <<>>)
    ELSE IF obj.class = "list" THEN flatten_list(Elems(obj), <<>>)
    ELSE [raised |-> "no", value |-> obj]

\* [[year, month, day]] as a decoded value
JDateParts(year, month, day) == JList(<<JList(<<JInt(year), JInt(Wide(month)), JInt(Wide(day))>>)>>)

\* The values found under a date-parts key: a day, a day that does not exist,
\* a year of 2^31, a string, and a mapping that has a date-parts key itself.
DatePartsValues ==
    { JDateParts(Wide(2024), 3, 15), JDateParts(Wide(2024), 2, 30), JDateParts(<<2, 0>>, 1, 1),
      JStr(<<"x">>), JDict(<<Item(DATE_PARTS, JList(<<JList(<<JInt(Wide(2023))>>)>>))>>) }

KeyPool == <<DATE_PARTS, "date", "title", "DOI">>

ValuesOf(key) == IF key = DATE_PARTS THEN DatePartsValues ELSE {JStr(<<"x">>)}

\* The innermost mappings: up to MaxKeys of the first MaxKeys keys of the pool,
\* in every order.
InnerDicts ==
    LET ks == { KeyPool[i] : i \in 1..MaxKeys }
        orders == { o \in UNION { [1..n -> ks] : n \in 0..MaxKeys } :
                        \A i \in DOMAIN o, j \in DOMAIN o : o[i] = o[j] => i = j }
        pairs == UNION { { Item(k, v) : v \in ValuesOf(k) } : k \in ks }
    IN  UNION { { JDict(items) : items \in { it \in [DOMAIN o -> pairs] :
                                               \A i \in DOMAIN o : it[i].key = o[i] } } : o \in orders }

\* A value inside a mapping, inside a list, and inside a list inside a mapping
\* that has a date-parts key of its own.
Wrapped(d) ==
    { JDict(<<Item("issued", d)>>),
      JList(<<d, JStr(<<"x">>)>>),
      JDict(<<Item(DATE_PARTS, JDateParts(Wide(2024), 13, 1)), Item("author", JList(<<d>>))>>) }

RECURSIVE Documents(_)
Documents(nest) ==
    IF nest = 0 THEN InnerDicts
    ELSE LET inner == Documents(nest - 1) IN inner \cup UNION { Wrapped(d) : d \in inner }

\* transformed_data = recursively_flatten_date_parts(data) returns.
Transform ==
    /\ UNCHANGED notFun
    /\ at = "called"
    /\ recursively_flatten_date_parts(arg).raised = "no"
    /\ at' = "returned"
    /\ ret' = [once |-> recursively_flatten_date_parts(arg).value, twice |-> [raised |-> "no", value |-> JNone]]
    /\ UNCHANGED arg

\* The call is left by the exception of date_parts_to_date.
TransformRaises ==
    /\ UNCHANGED notFun
    /\ at = "called"
    /\ recursively_flatten_date_parts(arg).raised # "no"
    /\ at' = "raised"
    /\ UNCHANGED <<arg, ret>>

\* The function is applied to its own result.
TransformAgain ==
    /\ UNCHANGED notFun
    /\ at = "returned"
    /\ at' = "again"
    /\ ret' = [ret EXCEPT !.twice = recursively_flatten_date_parts(ret.once)]
    /\ UNCHANGED arg

InitTransform ==
    /\ OrchIdle
    /\ LoadIdle
    /\ FileIdle
    /\ at = "called"
    /\ arg \in Documents(MaxNest)
    /\ ret = [once |-> JNone, twice |-> [raised |-> "no", value |-> JNone]]

NextTransform ==
    \/ Transform
    \/ TransformRaises
    \/ TransformAgain

SpecTransform == InitTransform /\ [][NextTransform]_vars

-----------------------------------------------------------------------------
(* Claims about the load scripts (SpecLoad) *)

RECURSIVE SumSeq(_)
SumSeq(seq) == IF seq = <<>> THEN 0 ELSE Head(seq) + SumSeq(Tail(seq))

Terminal(b) == bstate[b] \in {"returned", "collected"}

FailedBatches == { b \in Batches : Terminal(b) /\ ~outcome[b].success }

SucceededBatches == { b \in Batches : Terminal(b) /\ outcome[b].success }

UrisOf(bs) == UNION { RangeOf(batches[b]) : b \in bs }

PersistedLedger == RangeOf(disk[FailedLogOf(prog)].content)

LoadProgress ==
    \/ \E b \in Batches : IssueJob(b) \/ JobResult(b) \/ Wake(b) \/ CollectLoad(b)
    \/ Tick
    \/ PersistFailed

\* The run got past the start of main into the worker pool.
EnteredPool == ~(prog = "retry" /\ ~disk.FAILED_LOG.exists)

\* C2: during a scheduler run the number of load jobs issued by the whole pool
\* within one rate window never exceeds the ceiling N (limit), whatever the pool
\* width and the outcomes of the jobs.
C2_RateWithinCeiling ==
    (prog = "scheduler" /\ load_phase = "running") => SumSeq(recent) <= limit

\* C3: once a scheduler run or a retry run is complete, the persisted failure
\* ledger of that run holds exactly the URIs of the batches whose load job
\* failed: all of them, and no URI of a batch whose job succeeded.
C3_LedgerHoldsExactlyTheFailedUris ==
    load_phase = "done" =>
        /\ PersistedLedger = UrisOf(FailedBatches)
        /\ PersistedLedger \cap UrisOf(SucceededBatches) = {}

C3_Witness ==
    /\ load_phase = "done"
    /\ prog = "retry"
    /\ \E b \in FailedBatches : Len(batches[b]) >= 2
    /\ SucceededBatches # {}
    /\ PersistedLedger # {}

\* C9: a fault while the job of a batch is submitted or waited on becomes a
\* failed outcome of that batch and never leaves the worker: a run with batches
\* never crashes, can always go on until it is done, writes an artifact only
\* once every batch has a collected outcome, and when it is done every batch
\* has been submitted and collected and both artifacts are written.
C9_LoadFaultsAreCaptured ==
    /\ load_phase = "crashed" => batches = <<>>
    /\ \A b \in Batches : Terminal(b) => outcome[b].success = (outcome[b].err = "none")
    /\ load_phase = "running" => ENABLED LoadProgress
    /\ load_phase = "persist_errors" => ENABLED PersistErrors
    /\ wrote # {} => \A b \in Batches : bstate[b] = "collected"
    /\ (load_phase = "done" /\ EnteredPool) =>
          /\ \A b \in Batches : bstate[b] = "collected" /\ calls[b] >= 1
          /\ wrote = {FailedLogOf(prog), ErrorLogOf(prog)}

C9_Witness ==
    /\ load_phase = "done"
    /\ \E b \in Batches : outcome[b].err = "submit_fault"
    /\ \E b \in Batches : outcome[b].err = "load_error"
    /\ wrote = {FailedLogOf(prog), ErrorLogOf(prog)}

\* C10: within one run at most one load job is ever submitted for a batch, a
\* batch that has left the queue has had exactly one, failed or not, and at the
\* end of the run every batch has had exactly one.
C10_OneJobPerBatch ==
    \A b \in Batches :
        /\ calls[b] <= 1
        /\ bstate[b] # "queued" => calls[b] = 1
        /\ load_phase = "done" => calls[b] = 1

C10_Witness ==
    /\ load_phase = "done"
    /\ prog = "scheduler"
    /\ FailedBatches # {}
    /\ \A b \in Batches : calls[b] = 1

-----------------------------------------------------------------------------
(* Claims about the temporary files of the orchestrator (SpecOrch) *)

\* C12: no two tasks of a run that are being worked on at the same time have
\* the same temporary output path, so no worker can write, upload or delete
\* the temporary output of another task.
C12_TempFileOwnedByOneTask ==
    \A p \in Tasks, q \in Tasks :
        (p # q /\ InProcessing(p) /\ InProcessing(q))
            => temp_output_file_path(p) # temp_output_file_path(q)

\* C13: the temporary output of a task whose upload the store refused
\* (UploadFailed) is kept: it is still there once the task has returned and
\* once the run has ended. Stated for the tasks that share their temporary
\* path with no other task.
C13_FailedUploadKeepsTempFile ==
    \A p \in Tasks :
        ( /\ phase \in {"running", "done"}
          /\ result[p] = "upload_failed"
          /\ p \in hist.storeFault
          /\ \A q \in Tasks \ {p} : temp_output_file_path(q) # temp_output_file_path(p) )
        => tmp[temp_output_file_path(p)] # "absent"

\* C14: a task whose file processor run returned true having written no output
\* line resolves to EmptyResult (processed_empty), and nothing is uploaded
\* for it (no unexpected fault in the worker, no upload refused by the store).
C14_NoLinesIsEmptyResult ==
    \A p \in Tasks :
        ( /\ kind[p] = "nolines"
          /\ result[p] \notin {"none", "skipped"}
          /\ p \notin hist.faulted \cup hist.storeFault )
            => /\ result[p] = "processed_empty"
               /\ p \notin hist.uploaded

\* A run that submitted at least one task has left both with blocks.
SubmittedRunEnded == phase = "done" /\ ScanTasks # {}

\* C21: when a run that submitted at least one task has ended, nothing is left
\* of its temporary directory, whatever the outcomes of its tasks: no file at
\* any temporary path and no handle still open on one.
C21_TempDirRemovedAtRunEnd ==
    SubmittedRunEnded =>
        /\ \A n \in TempNames : tmp[n] = "absent"
        /\ \A p \in Paths : ~linked[p]

\* A run has ended in which the worker kept the temporary output of a refused
\* upload, another task failed otherwise, and the directory is gone.
C21_Witness ==
    /\ SubmittedRunEnded
    /\ \E p \in ScanTasks : result[p] = "upload_failed" /\ p \in hist.storeFault
    /\ \E q \in ScanTasks : result[q] \in {"processing_failed", "worker_error"}
    /\ \A n \in TempNames : tmp[n] = "absent"

-----------------------------------------------------------------------------
(* Claims about the aggregation loop of the orchestrator (SpecOrch) *)

CountedIn(statuses) == Cardinality({ p \in ScanTasks : result[p] \in statuses })

\* C22: when the aggregation loop of a run has finished, every submitted task
\* is counted in exactly one category: each counter is the number of tasks with
\* the outcomes of its category, the five counters add up to the number of
\* submitted tasks, and the run returns the number of tasks that uploaded an
\* object in this run.
C22_CountsPartitionTheTasks ==
    SubmittedRunEnded =>
        /\ \A p \in ScanTasks :
              result[p] \in {"success", "skipped", "processing_failed",
                             "processed_empty", "upload_failed", "worker_error"}
        /\ counts.processed_count = CountedIn({"success"})
        /\ counts.skipped_count = CountedIn({"skipped"})
        /\ counts.processing_failed_count = CountedIn({"processing_failed", "processed_empty"})
        /\ counts.upload_failed_count = CountedIn({"upload_failed"})
        /\ counts.worker_error_count = CountedIn({"worker_error"})
        /\ counts.processed_count + counts.skipped_count + counts.processing_failed_count
              + counts.upload_failed_count + counts.worker_error_count
              = Cardinality(ScanTasks)
        /\ returned = Cardinality(hist.uploaded)
        /\ returned = counts.processed_count

\* A run of three tasks has ended with three different categories counted.
C22_Witness ==
    /\ SubmittedRunEnded
    /\ Cardinality(ScanTasks) = 3
    /\ counts.processed_count = 1
    /\ counts.upload_failed_count = 1
    /\ counts.processing_failed_count + counts.worker_error_count + counts.skipped_count = 1
    /\ returned = 1
    /\ Cardinality(hist.uploaded) = 1

-----------------------------------------------------------------------------
(* Claims about the retry driver's artifacts (SpecLoad) *)

RetryArtifacts == {FailedLogOf("retry"), ErrorLogOf("retry")}

\* What a retry run may have written, and what it has done without a ledger.
RetryWritesOnlyItsOwn ==
    prog = "retry" =>
        /\ RetryArtifacts \cap {"FAILED_LOG", "ERROR_LOG"} = {}
        /\ wrote \subseteq RetryArtifacts
        /\ ~disk.FAILED_LOG.exists =>
              /\ batches = <<>>
              /\ wrote = {}
              /\ load_phase = "done"

\* A step of a retry run leaves the two artifacts of the scheduler as they
\* are, and every artifact as it is when there is no ledger to read.
RetryStepKeepsLedger ==
    prog' = "retry" =>
        /\ disk'.FAILED_LOG = disk.FAILED_LOG
        /\ disk'.ERROR_LOG = disk.ERROR_LOG
        /\ ~disk.FAILED_LOG.exists => disk' = disk

\* C15: a retry run never changes the failure ledger it reads (nor the error
\* artifact of the scheduler); it writes only its own failure artifact and its
\* own error artifact, which are other files; without a ledger it submits no
\* load job and writes nothing.
C15_RetryKeepsLedger == []RetryWritesOnlyItsOwn /\ [][RetryStepKeepsLedger]_vars

C15_Witness ==
    /\ prog = "retry"
    /\ load_phase = "done"
    /\ wrote = RetryArtifacts
    /\ FailedBatches # {}
    /\ SucceededBatches # {}
    /\ disk.RETRY_FAILED_LOG.content # disk.FAILED_LOG.content
    /\ Len(disk.FAILED_LOG.content) = MaxObjects

-----------------------------------------------------------------------------
(* Claims about the throttle of the load workers (SpecLoad) *)

\* C19: a load worker has slept the throttle delay when it returns, whether
\* its load job succeeded or failed.
C19_SleepsBeforeReturn ==
    \A b \in Batches : Terminal(b) => SleepOver(slept[b], limit)

-----------------------------------------------------------------------------
(* Claims about a scheduler run without objects (SpecLoad) *)

\* C23: a scheduler run that lists no object under the prefix submits no load
\* job and completes without a fault, with both of its artifacts written empty.
C23_EmptyListingCompletes ==
    (prog = "scheduler" /\ load_phase # "idle" /\ batches = <<>>) =>
        /\ load_phase # "crashed"
        /\ load_phase = "done" =>
              /\ wrote = {FailedLogOf(prog), ErrorLogOf(prog)}
              /\ disk[FailedLogOf(prog)] = File(<<>>)
              /\ disk[ErrorLogOf(prog)] = File(<<>>)

-----------------------------------------------------------------------------
(* Claims about the file processor (SpecFile) *)

CountOf(k) == Cardinality({ i \in DOMAIN lines : lines[i] = k })

\* C6 as stated: for an input of N lines of which K are malformed JSON the file
\* processor returns true, having written N - K lines and counted K.
C6_WritesAllButMalformed ==
    freturn # "reading" =>
        /\ freturn = "True"
        /\ lines_written = Len(lines) - CountOf("malformed")
        /\ lines_failed_json = CountOf("malformed")

\* C6 amended: the file processor never raises; it returns false exactly when a
\* stream fails; when it returns true it has read all N lines, counted the K
\* malformed ones, and written the others except the blank lines, the null
\* lines and the lines whose processing raised another error.
C6_WritesDocumentsCountsMalformed ==
    /\ freturn \in {"reading", "True", "False"}
    /\ freturn = "reading" => ENABLED NextFile
    /\ freturn = "False" => fail_at # 0
    /\ freturn = "True" =>
          /\ fail_at = 0
          /\ lines_processed = Len(lines)
          /\ lines_failed_json = CountOf("malformed")
          /\ lines_written = Len(lines) - CountOf("malformed") - CountOf("blank")
                               - CountOf("null") - CountOf("error")
          /\ lines_written = CountOf("doc")

C6_Witness ==
    /\ freturn = "True"
    /\ CountOf("malformed") >= 1
    /\ CountOf("blank") >= 1
    /\ CountOf("doc") >= 1
    /\ lines_written = 1

-----------------------------------------------------------------------------
(* Claims about the batches (SpecBatch) *)

\* C11: for totalFiles >= 1 and maxBatches >= 1 the scheduler makes its batches
\* without raising, at batch size ceiling(totalFiles / maxBatches), and makes
\* no more than maxBatches of them; 237 files under 1500 give size 1 and 237
\* batches, 50000 files under 1500 give size 34 and 1471 batches.
C11_BatchCountWithinCeiling ==
    (arg.script = "scheduler" /\ arg.total_files >= 1) =>
        /\ at # "raised"
        /\ at = "returned" =>
              /\ ret.files_per_batch * arg.param >= arg.total_files
              /\ (ret.files_per_batch - 1) * arg.param < arg.total_files
              /\ Len(ret.batches) <= arg.param
              /\ (arg.total_files = 237 /\ arg.param = 1500) =>
                    ret.files_per_batch = 1 /\ Len(ret.batches) = 237
              /\ (arg.total_files = 50000 /\ arg.param = 1500) =>
                    ret.files_per_batch = 34 /\ Len(ret.batches) = 1471

C11_Witness ==
    /\ at = "returned"
    /\ arg = [script |-> "scheduler", total_files |-> 50000, param |-> 1500]
    /\ Len(ret.batches) = 1471

\* The concatenation, in order, of batches that all hold `size` elements
\* except the last: element i is element (i-1) % size of batch (i-1) \div size.
Concat(made, size) ==
    IF made = <<>> THEN <<>>
    ELSE [i \in 1..((Len(made) - 1) * size + Len(made[Len(made)])) |->
             made[((i - 1) \div size) + 1][((i - 1) % size) + 1]]

\* C20: the batches made of a list of n URIs at batch size s >= 1 are not
\* empty, their concatenation in order is the list (so they are contiguous
\* and every URI is in exactly one of them), every batch but the last has
\* exactly s URIs and the last has at most s; 120 URIs at size 50 give batches
\* of 50, 50 and 20.
C20_PartitionIsContiguous ==
    at = "returned" =>
        LET size == ret.files_per_batch
            made == ret.batches
            all_files == Listing(arg.total_files)
        IN  /\ size >= 1
            /\ \A k \in DOMAIN made : Len(made[k]) >= 1
            /\ \A k \in DOMAIN made : k < Len(made) => Len(made[k]) = size
            /\ made # <<>> => Len(made[Len(made)]) <= size
            /\ Concat(made, size) = all_files
            \* no URI is left out, and none is in two batches: the batches
            \* together hold as many distinct URIs as they have places
            /\ UNION { RangeOf(made[k]) : k \in DOMAIN made } = RangeOf(all_files)
            /\ Cardinality(UNION { RangeOf(made[k]) : k \in DOMAIN made })
                  = Len(Concat(made, size))
            /\ (arg.script = "retry" /\ arg.total_files = 120 /\ arg.param = 50) =>
                  [k \in DOMAIN made |-> Len(made[k])] = <<50, 50, 20>>

C20_Witness ==
    /\ at = "returned"
    /\ arg = [script |-> "retry", total_files |-> 120, param |-> 50]
    /\ Len(ret.batches) = 3
    /\ ret.batches[3] = [i \in 1..20 |-> 100 + i]

-----------------------------------------------------------------------------
(* Claims about the date conversion (SpecDate) *)

\* The date parts of the call, with 1 for a missing month or day.
PartOf(i) == IF Len(arg[1]) >= i THEN arg[1][i] ELSE 1

IsYear(w, y) == w = Wide(y)

\* C16: for date parts [[year, month?, day?]] of integers the conversion never
\* raises; with month clamped to 1..12 and day to 1..31 (1 when missing) it
\* returns "YYYY-MM-DD" when these name a day of a year in 1..9999 and the
\* absence marker when they name no day; [[2024,3,15]] gives "2024-03-15",
\* [[2024]] "2024-01-01", [[2024,13,1]] "2024-12-01", [[2024,2,30]] the marker.
C16_DatePartsConversion ==
    at # "called" =>
        LET m == clamp(12, PartOf(2))
            d == clamp(31, PartOf(3))
        IN  /\ at = "returned"
            /\ \A y \in 1..9999 :
                  IsYear(arg[1][1], y) =>
                      ret = IF d <= days_in_month(y, m)
                              THEN Digits4(y) \o <<"-">> \o Digits2(m) \o <<"-">> \o Digits2(d)
                              ELSE None
            /\ arg = <<<<Wide(2024), 3, 15>>>> => ret = <<"2", "0", "2", "4", "-", "0", "3", "-", "1", "5">>
            /\ arg = <<<<Wide(2024)>>>> => ret = <<"2", "0", "2", "4", "-", "0", "1", "-", "0", "1">>
            /\ arg = <<<<Wide(2024), 13, 1>>>> => ret = <<"2", "0", "2", "4", "-", "1", "2", "-", "0", "1">>
            /\ arg = <<<<Wide(2024), 2, 30>>>> => ret = None

-----------------------------------------------------------------------------
(* Claims about the transformation (SpecTransform) *)

HasDateParts(items) == DATE_PARTS \in Keys(items)

\* What the output must be for an input: a mapping for a mapping, with the
\* same keys except that a date-parts key is replaced by a "date" key holding
\* the conversion of its value, and every other key holding what its value
\* must be (a "date" key of the input gives way to the conversion); a list for
\* a list, element by element; the same value for anything else.
RECURSIVE Conforms(_, _)
Conforms(in, out) ==
    IF in.class = "dict"
      THEN /\ out.class = "dict"
           /\ Keys(out.items) = (Keys(in.items) \ {DATE_PARTS})
                                   \cup (IF HasDateParts(in.items) THEN {"date"} ELSE {})
           /\ HasDateParts(in.items) =>
                 Get(out.items, "date") = date_parts_value(Get(in.items, DATE_PARTS)).value
           /\ \A k \in Keys(in.items) \ {DATE_PARTS} :
                 \/ k = "date" /\ HasDateParts(in.items)
                 \/ Conforms(Get(in.items, k), Get(out.items, k))
    ELSE IF in.class = "list"
      THEN /\ out.class = "list"
           /\ Len(out.items) = Len(in.items)
           /\ \A i \in DOMAIN in.items : Conforms(in.items[i].val, out.items[i].val)
    ELSE out = in

\* C17: when the transformation returns, every mapping of the document, at
\* every depth, inside mappings and inside lists, that has a date-parts key
\* has in the output a "date" key holding the conversion of that value, every
\* other key is kept with its transformed value, and nothing else changes.
C17_TransformReplacesDateParts ==
    at \in {"returned", "again"} => Conforms(arg, ret.once)

\* Is there a date-parts key at any depth.
RECURSIVE AnyDateParts(_)
AnyDateParts(obj) ==
    /\ obj.class \in {"dict", "list"}
    /\ \/ obj.class = "dict" /\ HasDateParts(obj.items)
       \/ \E i \in DOMAIN obj.items : AnyDateParts(obj.items[i].val)

\* C18: the output of one pass of the transformation has no date-parts key at
\* any depth, and a second pass over it returns and gives the same value.
C18_TransformIdempotent ==
    /\ at \in {"returned", "again"} => ~AnyDateParts(ret.once)
    /\ at = "again" =>
          /\ ret.twice.raised = "no"
          /\ ret.twice.value = ret.once

C18_Witness ==
    /\ at = "again"
    /\ arg.class = "list"
    /\ AnyDateParts(arg)
    /\ ret.once # arg
    /\ ret.twice.value = ret.once

=============================================================================
